---- MODULE Spec2Model ----
(***************************************************************************)
(* Model of dbkit's type and value layer (src/types.rs): the symbolic      *)
(* Type enum with its name / from_str / size_of tables, the ValueInfo      *)
(* descriptors, the RawData (pointer, size) view with its byte / text      *)
(* accessors and to_string, and the Value union with its From              *)
(* constructors.                                                           *)
(*                                                                         *)
(* Three specifications share the variables:                               *)
(*   Spec      calls of the pure functions of Type, ValueInfo and Value    *)
(*   SpecView  construction, copy and field assignment of RawData values   *)
(*   SpecRaw   a RawData view over a byte buffer owned by a collaborator   *)
(***************************************************************************)
EXTENDS Integers, Sequences, FiniteSets, TLC

VARIABLES
    out,          \* record of the last call: its operation, inputs and result
    ptrBytes,     \* size in bytes of a pointer / usize on the build target
    mem,          \* the collaborator's byte buffer, address -> byte
    live,         \* whether that buffer is currently allocated
    views,        \* the RawData values held, slot -> RawData
    contractKept  \* history: every construction / assignment so far supplied
                  \* a (pointer, size) pair with "null pointer => size 0"

vars == <<out, ptrBytes, mem, live, views, contractKept>>

----------------------------------------------------------------------------
(* Bounds *)

\* longest generated input string of from_str / Value::from
MaxStrLen == 4
\* number of bytes of the collaborator's buffer
MemSize == 2

----------------------------------------------------------------------------
(* Strings are sequences of characters, so that equality of two strings is  *)
(* equality of their contents and case or padding can differ.               *)

S_UINT32  == <<"U", "I", "N", "T", "3", "2">>
S_UINT64  == <<"U", "I", "N", "T", "6", "4">>
S_INT32   == <<"I", "N", "T", "3", "2">>
S_INT64   == <<"I", "N", "T", "6", "4">>
S_FLOAT32 == <<"F", "L", "O", "A", "T", "3", "2">>
S_FLOAT64 == <<"F", "L", "O", "A", "T", "6", "4">>
S_BOOLEAN == <<"B", "O", "O", "L", "E", "A", "N">>
S_TEXT    == <<"T", "E", "X", "T">>
S_BLOB    == <<"B", "L", "O", "B">>

ToLower(c) ==
    CASE c = "U" -> "u" [] c = "I" -> "i" [] c = "N" -> "n" [] c = "T" -> "t"
      [] c = "F" -> "f" [] c = "L" -> "l" [] c = "O" -> "o" [] c = "A" -> "a"
      [] c = "B" -> "b" [] c = "E" -> "e" [] c = "X" -> "x" [] OTHER -> c

ToUpper(c) ==
    CASE c = "u" -> "U" [] c = "i" -> "I" [] c = "n" -> "N" [] c = "t" -> "T"
      [] c = "f" -> "F" [] c = "l" -> "L" [] c = "o" -> "O" [] c = "a" -> "A"
      [] c = "b" -> "B" [] c = "e" -> "E" [] c = "x" -> "X" [] OTHER -> c

Lower(s) == [i \in 1..Len(s) |-> ToLower(s[i])]
Upper(s) == [i \in 1..Len(s) |-> ToUpper(s[i])]
Capitalised(s) == [i \in 1..Len(s) |-> IF i = 1 THEN s[i] ELSE ToLower(s[i])]

----------------------------------------------------------------------------
(* enum Type *)

Type_UINT32  == "Type::UINT32"
Type_UINT64  == "Type::UINT64"
Type_INT32   == "Type::INT32"
Type_INT64   == "Type::INT64"
Type_FLOAT32 == "Type::FLOAT32"
Type_FLOAT64 == "Type::FLOAT64"
Type_BOOLEAN == "Type::BOOLEAN"
Type_TEXT    == "Type::TEXT"
Type_BLOB    == "Type::BLOB"

Type == {Type_UINT32, Type_UINT64, Type_INT32, Type_INT64, Type_FLOAT32,
         Type_FLOAT64, Type_BOOLEAN, Type_TEXT, Type_BLOB}

----------------------------------------------------------------------------
(* trait ValueInfo and its nine implementations *)

\* the trait's defaults of the associated constants
ValueInfo_DEEP_COPY == TRUE
ValueInfo_VARLEN == FALSE

UInt32 ==
    [Store |-> "u32", ENUM |-> Type_UINT32,
     DEEP_COPY |-> ValueInfo_DEEP_COPY, VARLEN |-> ValueInfo_VARLEN]
UInt64 ==
    [Store |-> "u64", ENUM |-> Type_UINT64,
     DEEP_COPY |-> ValueInfo_DEEP_COPY, VARLEN |-> ValueInfo_VARLEN]
Int32 ==
    [Store |-> "i32", ENUM |-> Type_INT32,
     DEEP_COPY |-> ValueInfo_DEEP_COPY, VARLEN |-> ValueInfo_VARLEN]
Int64 ==
    [Store |-> "i64", ENUM |-> Type_INT64,
     DEEP_COPY |-> ValueInfo_DEEP_COPY, VARLEN |-> ValueInfo_VARLEN]
Float32 ==
    [Store |-> "f32", ENUM |-> Type_FLOAT32,
     DEEP_COPY |-> ValueInfo_DEEP_COPY, VARLEN |-> ValueInfo_VARLEN]
Float64 ==
    [Store |-> "f64", ENUM |-> Type_FLOAT64,
     DEEP_COPY |-> ValueInfo_DEEP_COPY, VARLEN |-> ValueInfo_VARLEN]
Boolean ==
    [Store |-> "bool", ENUM |-> Type_BOOLEAN,
     DEEP_COPY |-> ValueInfo_DEEP_COPY, VARLEN |-> ValueInfo_VARLEN]
Text ==
    [Store |-> "RawData", ENUM |-> Type_TEXT,
     DEEP_COPY |-> TRUE, VARLEN |-> TRUE]

\* Blob with the VARLEN override left out: the trait's default applies
Blob_default_varlen ==
    [Store |-> "RawData", ENUM |-> Type_BLOB,
     DEEP_COPY |-> ValueInfo_DEEP_COPY, VARLEN |-> ValueInfo_VARLEN]

Blob ==
    [Store |-> "RawData", ENUM |-> Type_BLOB,
     DEEP_COPY |-> ValueInfo_DEEP_COPY, VARLEN |-> TRUE]

Descriptors ==
    {UInt32, UInt64, Int32, Int64, Float32, Float64, Boolean, Text, Blob}

\* the static instances
static_UINT32 == UInt32
static_UINT64 == UInt64
static_INT32 == Int32
static_INT64 == Int64
static_FLOAT32 == Float32
static_FLOAT64 == Float64
static_BOOLEAN == Boolean
static_TEXT == Text
static_BLOB == Blob

\* mem::size_of::<Store>() with bool taken for a 32-bit flag
mem_size_of_wide_bool(store) ==
    CASE store = "u32"  -> 4
      [] store = "u64"  -> 8
      [] store = "i32"  -> 4
      [] store = "i64"  -> 8
      [] store = "f32"  -> 4
      [] store = "f64"  -> 8
      [] store = "bool" -> 4
      [] store = "RawData" -> ptrBytes + ptrBytes

\* mem::size_of::<Store>(): RawData is { data: *mut u8, size: usize }, two
\* pointer-sized fields of equal alignment, so no padding
mem_size_of(store) ==
    CASE store = "u32"  -> 4
      [] store = "u64"  -> 8
      [] store = "i32"  -> 4
      [] store = "i64"  -> 8
      [] store = "f32"  -> 4
      [] store = "f64"  -> 8
      [] store = "bool" -> 1
      [] store = "RawData" -> ptrBytes + ptrBytes

\* ValueInfo::size_of(&self), the trait's default method
ValueInfo_size_of(self) == mem_size_of(self.Store)

----------------------------------------------------------------------------
(* impl Type *)

\* Type::name with the INT64 arm copied from INT32
Type_name_copied_arm(self) ==
    CASE self = Type_UINT32  -> S_UINT32
      [] self = Type_UINT64  -> S_UINT64
      [] self = Type_INT32   -> S_INT32
      [] self = Type_INT64   -> S_INT32
      [] self = Type_FLOAT32 -> S_FLOAT32
      [] self = Type_FLOAT64 -> S_FLOAT64
      [] self = Type_BOOLEAN -> S_BOOLEAN
      [] self = Type_TEXT    -> S_TEXT
      [] self = Type_BLOB    -> S_BLOB

Type_name(self) ==
    CASE self = Type_UINT32  -> S_UINT32
      [] self = Type_UINT64  -> S_UINT64
      [] self = Type_INT32   -> S_INT32
      [] self = Type_INT64   -> S_INT64
      [] self = Type_FLOAT32 -> S_FLOAT32
      [] self = Type_FLOAT64 -> S_FLOAT64
      [] self = Type_BOOLEAN -> S_BOOLEAN
      [] self = Type_TEXT    -> S_TEXT
      [] self = Type_BLOB    -> S_BLOB

\* the match of Type::size_of with the INT32 arm naming the UINT32 static
Type_size_of_static_wrong_arm(self) ==
    CASE self = Type_UINT32  -> static_UINT32
      [] self = Type_UINT64  -> static_UINT64
      [] self = Type_INT32   -> static_UINT32
      [] self = Type_INT64   -> static_INT64
      [] self = Type_FLOAT32 -> static_FLOAT32
      [] self = Type_FLOAT64 -> static_FLOAT64
      [] self = Type_BOOLEAN -> static_BOOLEAN
      [] self = Type_TEXT    -> static_TEXT
      [] self = Type_BLOB    -> static_BLOB

\* the static instance the match of Type::size_of selects
Type_size_of_static(self) ==
    CASE self = Type_UINT32  -> static_UINT32
      [] self = Type_UINT64  -> static_UINT64
      [] self = Type_INT32   -> static_INT32
      [] self = Type_INT64   -> static_INT64
      [] self = Type_FLOAT32 -> static_FLOAT32
      [] self = Type_FLOAT64 -> static_FLOAT64
      [] self = Type_BOOLEAN -> static_BOOLEAN
      [] self = Type_TEXT    -> static_TEXT
      [] self = Type_BLOB    -> static_BLOB

Type_size_of(self) == ValueInfo_size_of(Type_size_of_static(self))

----------------------------------------------------------------------------
(* impl str::FromStr for Type *)

Ok(v) == [ok |-> TRUE, val |-> v]
Err(e) == [ok |-> FALSE, err |-> e]

DBError_UnknownType(payload) == [kind |-> "UnknownType", payload |-> payload]

\* String::from(&str): a new string with a copy of the characters
String_from_chars(s) == [i \in 1..Len(s) |-> s[i]]

\* from_str comparing without regard to case
from_str_ignore_case(s) ==
    LET u == Upper(s) IN
    IF      u = S_UINT32  THEN Ok(Type_UINT32)
    ELSE IF u = S_UINT64  THEN Ok(Type_UINT64)
    ELSE IF u = S_INT32   THEN Ok(Type_INT32)
    ELSE IF u = S_INT64   THEN Ok(Type_INT64)
    ELSE IF u = S_FLOAT32 THEN Ok(Type_FLOAT32)
    ELSE IF u = S_FLOAT64 THEN Ok(Type_FLOAT64)
    ELSE IF u = S_BOOLEAN THEN Ok(Type_BOOLEAN)
    ELSE IF u = S_TEXT    THEN Ok(Type_TEXT)
    ELSE IF u = S_BLOB    THEN Ok(Type_BLOB)
    ELSE Err(DBError_UnknownType(String_from_chars(s)))

from_str(s) ==
    IF      s = S_UINT32  THEN Ok(Type_UINT32)
    ELSE IF s = S_UINT64  THEN Ok(Type_UINT64)
    ELSE IF s = S_INT32   THEN Ok(Type_INT32)
    ELSE IF s = S_INT64   THEN Ok(Type_INT64)
    ELSE IF s = S_FLOAT32 THEN Ok(Type_FLOAT32)
    ELSE IF s = S_FLOAT64 THEN Ok(Type_FLOAT64)
    ELSE IF s = S_BOOLEAN THEN Ok(Type_BOOLEAN)
    ELSE IF s = S_TEXT    THEN Ok(Type_TEXT)
    ELSE IF s = S_BLOB    THEN Ok(Type_BLOB)
    ELSE Err(DBError_UnknownType(String_from_chars(s)))

----------------------------------------------------------------------------
(* enum Value and its From constructors.  A scalar payload is held as the   *)
(* bytes of its representation, so that every value of its width, NaN and   *)
(* the infinities included, is a value like any other.                      *)

Value_NULL       == [tag |-> "NULL",    payload |-> "none"]
Value_UINT32(v)  == [tag |-> "UINT32",  payload |-> v]
Value_UINT64(v)  == [tag |-> "UINT64",  payload |-> v]
Value_INT32(v)   == [tag |-> "INT32",   payload |-> v]
Value_INT64(v)   == [tag |-> "INT64",   payload |-> v]
Value_FLOAT32(v) == [tag |-> "FLOAT32", payload |-> v]
Value_FLOAT64(v) == [tag |-> "FLOAT64", payload |-> v]
Value_BOOLEAN(v) == [tag |-> "BOOLEAN", payload |-> v]
Value_TEXT(v)    == [tag |-> "TEXT",    payload |-> v]
Value_BLOB(v)    == [tag |-> "BLOB",    payload |-> v]

\* pub const NULL_VALUE: NullType = NullType {}
NULL_VALUE == "NullType{}"

From_NullType(v) == Value_NULL

\* From<u32> treating zero as "no value"
From_u32_zero_is_null(v) == IF \A i \in 1..Len(v) : v[i] = 0 THEN Value_NULL ELSE Value_UINT32(v)

From_u32(v) == Value_UINT32(v)
From_u64(v) == Value_UINT64(v)
From_i32(v) == Value_INT32(v)
From_i64(v) == Value_INT64(v)
From_f32(v) == Value_FLOAT32(v)
From_f64(v) == Value_FLOAT64(v)
From_str(v) == Value_TEXT(v)
From_bytes(v) == Value_BLOB(v)

\* the source types T for which an `impl From<T> for Value` exists
FromImpls == {"NullType", "u32", "u64", "i32", "i64", "f32", "f64", "&str", "&[u8]"}

\* what `Value::from(v)` with v: T resolves to: the impl's result, or no value
\* at all where the trait bound `Value: From<T>` is not satisfied (E0277)
Unresolved == [tag |-> "E0277", payload |-> "none"]

Value_from(ty, v) ==
    IF ty \notin FromImpls THEN Unresolved
    ELSE CASE ty = "NullType" -> From_NullType(v)
           [] ty = "u32"      -> From_u32(v)
           [] ty = "u64"      -> From_u64(v)
           [] ty = "i32"      -> From_i32(v)
           [] ty = "i64"      -> From_i64(v)
           [] ty = "f32"      -> From_f32(v)
           [] ty = "f64"      -> From_f64(v)
           [] ty = "&str"     -> From_str(v)
           [] ty = "&[u8]"    -> From_bytes(v)

----------------------------------------------------------------------------
(* struct RawData over the collaborator's buffer *)

\* the null pointer
NULL == 0

Addr == 1..MemSize
Byte == {65, 255}
Slots == {1, 2}

RawData(data, size) == [data |-> data, size |-> size]

\* a copy that keeps the size and loses the pointer
RawData_copy_drops_pointer(self) == [data |-> NULL, size |-> self.size]

\* #[derive(Clone, Copy)]: a bitwise copy of both fields
RawData_copy(self) == [data |-> self.data, size |-> self.size]

\* the view's pointer is present and names `size` bytes of a live allocation
Readable(v) ==
    /\ v.data # NULL
    /\ v.size = 0 \/ (live /\ v.data + v.size - 1 <= MemSize)

ViewedBytes(v) == [i \in 1..v.size |-> mem[v.data + i - 1]]

Fault == [kind |-> "fault", store |-> "none", ptr |-> NULL, len |-> 0, bytes |-> <<>>]

Borrowed(kind, p, n, bytes) ==
    [kind |-> kind, store |-> "borrowed", ptr |-> p, len |-> n, bytes |-> bytes]

\* slice::from_raw_parts(data, len): what a build can produce.  The call
\* requires a non-null pointer (also for len = 0) to len readable bytes;
\* anything else is undefined behaviour: the slice that the two words
\* denote, with whatever bytes are found there, or a fault (the debug
\* precondition check of the standard library aborts, or the read traps).
slice_from_raw_parts(p, n) ==
    IF Readable(RawData(p, n))
    THEN {Borrowed("slice", p, n, ViewedBytes(RawData(p, n)))}
    ELSE {Fault} \cup {Borrowed("slice", p, n, g) : g \in [1..n -> Byte]}

\* impl AsRef<[u8]> for RawData
AsRef_u8(self) == slice_from_raw_parts(self.data, self.size)

\* str::from_utf8_unchecked: the same pointer and length seen as str; the
\* bytes are not looked at
from_utf8_unchecked(slice) ==
    IF slice.kind = "fault" THEN slice ELSE [slice EXCEPT !.kind = "str"]

\* impl AsRef<str> for RawData
AsRef_str(self) ==
    {from_utf8_unchecked(slice) : slice \in slice_from_raw_parts(self.data, self.size)}

\* a String that keeps the pointer of the str instead of copying its bytes
String_from_keeps_pointer(str) ==
    IF str.kind = "fault" THEN str ELSE [str EXCEPT !.kind = "String"]

\* String::from(&str): a new allocation holding a copy of the bytes
String_from(str) ==
    IF str.kind = "fault" THEN str
    ELSE [kind |-> "String", store |-> "owned", ptr |-> NULL, len |-> str.len,
          bytes |-> [i \in 1..str.len |-> str.bytes[i]]]

\* impl ToString for RawData
RawData_to_string(self) == {String_from(str) : str \in AsRef_str(self)}

\* the bytes a slice, str or String holds now: its own, or those it points at
Contents(x) ==
    IF x.store = "owned" THEN x.bytes
    ELSE [i \in 1..x.len |-> mem[x.ptr + i - 1]]

IsUtf8(bytes) == \A i \in 1..Len(bytes) : bytes[i] < 128

WellFormed(v) == v.data = NULL => v.size = 0

----------------------------------------------------------------------------
(* Inputs *)

SeqsUpTo(S, n) == UNION {[1..k -> S] : k \in 0..n}

\* the spellings of a name that a schema text could hold by mistake
Misspellings(n) ==
    {Lower(n), Capitalised(n), <<" ">> \o n, n \o <<" ">>, <<" ">> \o n \o <<" ">>,
     SubSeq(n, 1, Len(n) - 1), n \o <<"S">>}

Alphabet == {"T", "E", "X", "t", " "}

StrInputs ==
    SeqsUpTo(Alphabet, MaxStrLen)
        \cup {Type_name(k) : k \in Type}
        \cup UNION {Misspellings(Type_name(k)) : k \in Type}

NativeTypes == FromImpls \cup {"bool"}

\* values of each native type, the extremes of its range among them.  A
\* scalar is given by the bytes of its representation, least significant
\* first (a float by those of its bit pattern).
Zero(n) == [i \in 1..n |-> 0]
Ones(n) == [i \in 1..n |-> 255]

InputsOf(ty) ==
    CASE ty = "NullType" -> {NULL_VALUE}
      [] ty = "u32"   -> {Zero(4), <<1, 0, 0, 0>>, Ones(4)}
      [] ty = "u64"   -> {Zero(8), <<0, 0, 0, 0, 1, 0, 0, 0>>, Ones(8)}
      [] ty = "i32"   -> {Zero(4), Ones(4), <<0, 0, 0, 128>>, <<255, 255, 255, 127>>}
      [] ty = "i64"   -> {Zero(8), Ones(8), <<0, 0, 0, 0, 0, 0, 0, 128>>}
      [] ty = "f32"   -> {Zero(4), <<0, 0, 0, 128>>, <<195, 245, 72, 64>>,
                          <<0, 0, 128, 127>>, <<0, 0, 192, 127>>}
      [] ty = "f64"   -> {Zero(8), <<31, 133, 235, 81, 184, 30, 9, 64>>,
                          <<0, 0, 0, 0, 0, 0, 240, 127>>,
                          <<0, 0, 0, 0, 0, 0, 248, 127>>}
      [] ty = "bool"  -> {FALSE, TRUE}
      [] ty = "&str"  -> SeqsUpTo(Alphabet, MaxStrLen - 1)
      [] ty = "&[u8]" -> SeqsUpTo(Byte \cup {0}, MemSize)

\* the Value variant that holds a payload of the native type
VariantOf(ty) ==
    CASE ty = "NullType" -> "NULL"
      [] ty = "u32"   -> "UINT32"
      [] ty = "u64"   -> "UINT64"
      [] ty = "i32"   -> "INT32"
      [] ty = "i64"   -> "INT64"
      [] ty = "f32"   -> "FLOAT32"
      [] ty = "f64"   -> "FLOAT64"
      [] ty = "bool"  -> "BOOLEAN"
      [] ty = "&str"  -> "TEXT"
      [] ty = "&[u8]" -> "BLOB"

Ptrs == {NULL} \cup Addr
Sizes == 0..MemSize

----------------------------------------------------------------------------
(* Initial state *)

Init ==
    /\ out = [op |-> "init"]
    /\ ptrBytes \in {4, 8}
    /\ mem = [a \in Addr |-> 65]
    /\ live = TRUE
    /\ views = [s \in Slots |-> RawData(NULL, 0)]
    /\ contractKept = TRUE

----------------------------------------------------------------------------
(* Calls of the functions of Type, ValueInfo and Value.  The functions are   *)
(* pure, so a behaviour is one call: its inputs are drawn when it is made.   *)

Idle == out.op = "init"

CallName ==
    \E k \in Type :
        /\ Idle
        /\ out' = [op |-> "name", arg |-> k, res |-> Type_name(k)]
        /\ UNCHANGED <<ptrBytes, mem, live, views, contractKept>>

\* k.name().parse::<Type>()
CallParseName ==
    \E k \in Type :
        /\ Idle
        /\ out' = [op |-> "parse_name", arg |-> k, res |-> from_str(Type_name(k))]
        /\ UNCHANGED <<ptrBytes, mem, live, views, contractKept>>

CallFromStr ==
    \E s \in StrInputs :
        /\ Idle
        /\ out' = [op |-> "from_str", arg |-> s, res |-> from_str(s)]
        /\ UNCHANGED <<ptrBytes, mem, live, views, contractKept>>

CallSizeOf ==
    \E k \in Type :
        /\ Idle
        /\ out' = [op |-> "size_of", arg |-> k,
                   static |-> Type_size_of_static(k), res |-> Type_size_of(k)]
        /\ UNCHANGED <<ptrBytes, mem, live, views, contractKept>>

\* a read of <D as ValueInfo>::VARLEN for a descriptor type D
ReadVarlen ==
    \E d \in Descriptors :
        /\ Idle
        /\ out' = [op |-> "VARLEN", arg |-> d.ENUM, res |-> d.VARLEN]
        /\ UNCHANGED <<ptrBytes, mem, live, views, contractKept>>

CallValueFrom ==
    \E ty \in NativeTypes :
        \E v \in InputsOf(ty) :
            /\ Idle
            /\ out' = [op |-> "value_from", ty |-> ty, arg |-> v,
                       res |-> Value_from(ty, v)]
            /\ UNCHANGED <<ptrBytes, mem, live, views, contractKept>>

Next ==
    \/ CallName
    \/ CallParseName
    \/ CallFromStr
    \/ CallSizeOf
    \/ ReadVarlen
    \/ CallValueFrom

Spec == Init /\ [][Next]_vars

----------------------------------------------------------------------------
(* Construction, copy and field assignment of RawData values *)

\* RawData { data: p, size: n }
Construct(s, p, n) ==
    /\ views' = [views EXCEPT ![s] = RawData(p, n)]
    /\ contractKept' = (contractKept /\ (p = NULL => n = 0))
    /\ out' = [op |-> "construct", slot |-> s]
    /\ UNCHANGED <<ptrBytes, mem, live>>

\* let d = s;
CopyView(d, s) ==
    /\ views' = [views EXCEPT ![d] = RawData_copy(views[s])]
    /\ out' = [op |-> "copy", slot |-> d]
    /\ UNCHANGED <<ptrBytes, mem, live, contractKept>>

\* v.data = p;
AssignData(s, p) ==
    /\ views' = [views EXCEPT ![s].data = p]
    /\ contractKept' = (contractKept /\ (p = NULL => views[s].size = 0))
    /\ out' = [op |-> "assign_data", slot |-> s]
    /\ UNCHANGED <<ptrBytes, mem, live>>

\* v.size = n;
AssignSize(s, n) ==
    /\ views' = [views EXCEPT ![s].size = n]
    /\ contractKept' = (contractKept /\ (views[s].data = NULL => n = 0))
    /\ out' = [op |-> "assign_size", slot |-> s]
    /\ UNCHANGED <<ptrBytes, mem, live>>

NextView ==
    \/ \E s \in Slots, p \in Ptrs, n \in Sizes : Construct(s, p, n)
    \/ \E d \in Slots, s \in Slots : CopyView(d, s)
    \/ \E s \in Slots, p \in Ptrs : AssignData(s, p)
    \/ \E s \in Slots, n \in Sizes : AssignSize(s, n)

SpecView == Init /\ [][NextView]_vars

----------------------------------------------------------------------------
(* A view over the collaborator's buffer *)

\* the owner of the buffer (or, after a release, its next owner) writes a byte
WriteByte ==
    \E a \in Addr, b \in Byte :
        /\ mem[a] # b
        /\ mem' = [mem EXCEPT ![a] = b]
        /\ UNCHANGED <<out, ptrBytes, live, views, contractKept>>

Release ==
    /\ live
    /\ live' = FALSE
    /\ UNCHANGED <<out, ptrBytes, mem, views, contractKept>>

Allocate ==
    /\ ~live
    /\ live' = TRUE
    /\ UNCHANGED <<out, ptrBytes, mem, views, contractKept>>

\* what a call on view v records besides its result: the view, whether it was
\* over live bytes when called, and the bytes it was over then
Called(op, v, r) ==
    [op |-> op, view |-> v, readable |-> Readable(v),
     viewed |-> IF Readable(v) THEN ViewedBytes(v) ELSE <<>>, res |-> r]

CallAsBytes ==
    \E r \in AsRef_u8(views[1]) :
        /\ out' = Called("as_bytes", views[1], r)
        /\ UNCHANGED <<ptrBytes, mem, live, views, contractKept>>

CallAsStr ==
    \E r \in AsRef_str(views[1]) :
        /\ out' = Called("as_str", views[1], r)
        /\ UNCHANGED <<ptrBytes, mem, live, views, contractKept>>

CallToString ==
    \E r \in RawData_to_string(views[1]) :
        /\ out' = Called("to_string", views[1], r)
        /\ UNCHANGED <<ptrBytes, mem, live, views, contractKept>>

NextRaw ==
    \/ \E p \in Ptrs, n \in Sizes : Construct(1, p, n)
    \/ WriteByte
    \/ Release
    \/ Allocate
    \/ CallAsBytes
    \/ CallAsStr
    \/ CallToString

SpecRaw == Init /\ [][NextRaw]_vars

----------------------------------------------------------------------------
(* Properties *)

NineNames ==
    {S_UINT32, S_UINT64, S_INT32, S_INT64, S_FLOAT32, S_FLOAT64, S_BOOLEAN,
     S_TEXT, S_BLOB}

\* C1: parsing the name of a kind succeeds and gives back that kind.
C1_ParseInvertsName ==
    out.op = "parse_name" => out.res.ok /\ out.res.val = out.arg

C1_Witness ==
    /\ out.op = "parse_name"
    /\ out.arg = Type_INT64
    /\ out.res.ok
    /\ out.res.val = Type_INT64

\* C2: from_str succeeds on each of the nine canonical names and on nothing
\* else; on any other string it returns UnknownType carrying that string.
C2_UnknownTypeCarriesInput ==
    out.op = "from_str" =>
        IF out.arg \in NineNames
        THEN out.res.ok
        ELSE /\ ~out.res.ok
             /\ out.res.err.kind = "UnknownType"
             /\ out.res.err.payload = out.arg

C2_Witness ==
    /\ out.op = "from_str"
    /\ out.arg = Lower(S_TEXT)
    /\ ~out.res.ok
    /\ out.res.err.payload = Lower(S_TEXT)

\* C3: size_of is positive; 4 for the 32-bit kinds, 8 for the 64-bit kinds,
\* 1 for BOOLEAN, and for TEXT and BLOB alike the size of the (pointer,
\* length) descriptor.
C3_SizeOfTable ==
    out.op = "size_of" =>
        /\ out.res > 0
        /\ out.res =
              CASE out.arg \in {Type_UINT32, Type_INT32, Type_FLOAT32} -> 4
                [] out.arg \in {Type_UINT64, Type_INT64, Type_FLOAT64} -> 8
                [] out.arg = Type_BOOLEAN -> 1
                [] out.arg \in {Type_TEXT, Type_BLOB} -> 2 * ptrBytes

C3_Witness ==
    /\ out.op = "size_of"
    /\ out.arg = Type_BOOLEAN
    /\ out.res = 1

\* C4: the descriptor of kind k is variable-length iff k is TEXT or BLOB.
C4_VarlenIffTextOrBlob ==
    out.op = "VARLEN" => (out.res <=> out.arg \in {Type_TEXT, Type_BLOB})

C4_Witness ==
    /\ out.op = "VARLEN"
    /\ out.arg = Type_BLOB
    /\ out.res = TRUE

\* C5: every native type behind a Value variant, bool included, has a From
\* constructor that yields the matching variant holding exactly the input.
C5_FromEveryNative ==
    out.op = "value_from" /\ out.ty # "NullType" =>
        /\ out.res.tag = VariantOf(out.ty)
        /\ out.res.payload = out.arg

\* C6: Value::from yields NULL for NULL_VALUE and for no other input, and
\* NULL is another variant than UINT32(0).
C6_NullOnlyFromNullValue ==
    /\ out.op = "value_from" => (out.res.tag = "NULL" <=> out.ty = "NullType")
    /\ From_NullType(NULL_VALUE).tag # From_u32(Zero(4)).tag

C6_Witness ==
    /\ out.op = "value_from"
    /\ out.ty = "u32"
    /\ out.arg = Zero(4)
    /\ out.res.tag = "UINT32"

\* C7: over live bytes the byte accessor returns the viewed bytes in place
\* (same address, same length, same contents) and the text accessor the same
\* bytes unvalidated; a view of size 0, the absent view (null, 0) included,
\* gives an empty byte sequence and no fault.
C7_AccessorsNeverFault ==
    /\ out.op \in {"as_bytes", "as_str"} /\ out.readable =>
          /\ out.res.kind = (IF out.op = "as_bytes" THEN "slice" ELSE "str")
          /\ out.res.ptr = out.view.data
          /\ out.res.len = out.view.size
          /\ out.res.bytes = out.viewed
    /\ out.op = "as_bytes" /\ out.view.size = 0 =>
          /\ out.res.kind = "slice"
          /\ out.res.len = 0

C9_StringKeepsCopy ==
    out.op = "to_string" /\ out.readable /\ IsUtf8(out.viewed) =>
        /\ out.res.kind = "String"
        /\ Contents(out.res) = out.viewed

\* the call changes neither the source bytes nor the view
C9_CallLeavesSource ==
    out' # out /\ out'.op = "to_string" => UNCHANGED <<mem, live, views>>

\* C9: both parts: the String keeps the bytes viewed at the call in every
\* later state, and the to_string step itself leaves buffer and view alone.
C9_ToStringIndependent == [](C9_StringKeepsCopy) /\ [][C9_CallLeavesSource]_vars

C9_Witness ==
    /\ out.op = "to_string"
    /\ out.view = RawData(1, 2)
    /\ out.viewed = <<65, 65>>
    /\ out.res.kind = "String"
    /\ out.res.bytes = <<65, 65>>
    /\ mem[1] = 255
    /\ ~live

\* C10: every kind has exactly one descriptor, and size_of(k) goes through the
\* static instance of that descriptor: the width is the size of its Store.
C10_OneDescriptorPerKind ==
    /\ \A k \in Type : Cardinality({d \in Descriptors : d.ENUM = k}) = 1
    /\ out.op = "size_of" =>
          /\ out.static \in Descriptors
          /\ out.static.ENUM = out.arg
          /\ out.res = mem_size_of(out.static.Store)

C10_Witness ==
    /\ out.op = "size_of"
    /\ out.arg = Type_INT32
    /\ out.static = Int32
    /\ out.res = 4

====
